---- MODULE Spec2Model ----
(***************************************************************************)
(* State-machine model of the ETL orchestration layer:                     *)
(*   ETLPipeline            (src/src/orchestration/etl_pipeline.py)        *)
(*   ExtractionOrchestrator (src/src/extract/extraction_orchestrator.py)   *)
(*   TransformationPipeline (src/src/transform/transformation_pipeline.py) *)
(*   LoadingPipeline        (src/src/load/loading_pipeline.py)             *)
(* The components (extractors, transformers, loaders) are the environment: *)
(* each call of extract / transform / validate / load picks its outcome    *)
(* nondeterministically.  One loop iteration of an orchestrator is one     *)
(* step; the program is single-threaded, so no other operation on the      *)
(* pipeline object is enabled while run_pipeline is on the stack.          *)
(* Further specifications, over the same variables, take one part on its   *)
(* own: the script run_complete_etl (ScriptSpec), DataCleaner              *)
(* (CleanerSpec), FeatureEngineer (EngineerSpec, InteractionsSpec), the    *)
(* extractors' validate (ValidateSpec), FileLoader and DatabaseLoader      *)
(* (LoaderSpec) and LoadingPipeline (LoadingSpec).                         *)
(***************************************************************************)
EXTENDS Naturals, Sequences, FiniteSets, TLC

\* ------------------------------------------------------------------ bounds
\* Longest component list of one stage.
MaxComponents == 2
\* Number of run_pipeline calls made on the one ETLPipeline object.
MaxRuns == 2

\* ------------------------------------------------------- names and values
\* The names are keys of the orchestrators' dicts and nothing else, except
\* "feature_engineer", which _run_loading_stage looks up.  Extractor and
\* loader lists are enumerated up to renaming: the first extractor is
\* uci_mushroom, the first loader is file_loader.
ExtractorNames == {"uci_mushroom", "file_data"}
TransformerNames == {"data_cleaner", "feature_engineer"}
LoaderNames == {"database_loader", "file_loader"}
StageNames == {"extraction", "transformation", "loading"}
StatusValues == {"initialized", "running", "completed", "failed"}

\* Python's None where a table is expected.
NoData == [stage |-> "none", idx |-> 0, run |-> 0, empty |-> TRUE]

\* A DataFrame: which call produced it (stage, position in the component
\* list, run_pipeline call) and whether it has no rows (DataFrame.empty).
Table(stage, idx, run, empty) ==
    [stage |-> stage, idx |-> idx, run |-> run, empty |-> empty]

\* DataFrame.copy(): another object with the same rows.  A table of the model
\* is the object a call produced, so the copy is a different table.
copy(t) == [t EXCEPT !.stage = "copy of " \o t.stage]

\* dict[key] = value
Put(d, k, v) == [x \in (DOMAIN d) \cup {k} |-> IF x = k THEN v ELSE d[x]]

\* {} (an empty dict)
EmptyDict == <<>>

VARIABLES
    \* ETLPipeline
    status,                 \* self.stats["status"]
    stages,                 \* self.stats["stages"]: stage name -> [success]
    start_time,             \* self.stats["start_time"] is set
    end_time,               \* self.stats["end_time"] is set
    output_dir,             \* processed_data_dir: pipeline id -> the file
                            \* <pipeline_id>_pipeline_logs.json
    pipeline_id,            \* self.pipeline_id: the second __init__ ran at
    \* ExtractionOrchestrator
    extractors,             \* self.extractors (names, in insertion order)
    extraction_results,     \* self.results: name -> table
    extraction_stats,       \* self.stats counters
    \* TransformationPipeline
    transformers,           \* self.transformers
    transformation_results, \* self.results: name -> table
    current_data,           \* local of run_transformations
    \* LoadingPipeline
    loaders,                \* self.loaders
    loading_results,        \* self.results: name -> bool
    loading_stats,          \* self.stats
    transformed_data,       \* the data argument of run_loadings
    successful_loadings,    \* local of run_loadings
    failed_loadings,        \* local of run_loadings
    \* control
    pc,                     \* "idle" or the stage whose loop is running
    i,                      \* position of the next component in the loop
    result,                 \* what the latest run_pipeline call returned
    \* history of the current (or latest) run_pipeline call
    runs,                   \* number of run_pipeline calls so far
    invoked,                \* <<stage, position>> of each component called
    succeeded,              \* stage -> positions of its successful components
    stage_returns,          \* what each _run_*_stage call returned, in order
    calls,                  \* the calls made in the latest loop iteration
    \* scripts/run_complete_etl.py
    now,                    \* datetime.now(), in seconds
    script_pc,              \* "none", or where run_complete_etl is
    script_calls,           \* number of run_complete_etl calls so far
    script_result,          \* what the latest run_complete_etl call returned
    \* a component called on its own
    input_data,             \* the table it is called with
    config,                 \* its configuration
    outputs                 \* what its calls returned, in order

pipeline_vars == <<status, stages, start_time, end_time, output_dir, pipeline_id>>
extraction_vars == <<extractors, extraction_results, extraction_stats>>
transformation_vars == <<transformers, transformation_results, current_data>>
loading_vars == <<loaders, loading_results, loading_stats, transformed_data,
                  successful_loadings, failed_loadings>>
control_vars == <<pc, i, result>>
history_vars == <<runs, invoked, succeeded, stage_returns, calls>>
script_vars == <<now, script_pc, script_calls, script_result>>
component_vars == <<input_data, config, outputs>>
vars == <<pipeline_vars, extraction_vars, transformation_vars, loading_vars,
          control_vars, history_vars, script_vars, component_vars>>

\* What json.dump(self.stats, f) leaves in the file: the stats, whose
\* start_time tells which run_pipeline call of which object they are of.
LogFile(stats, object, run) == [stats |-> stats, object |-> object, run |-> run]

\* A call of a component's method: its argument, how it ended ("raised",
\* "returned", "True", "False") and the table it returned, if any.
Call(stage, op, idx, arg, res, out) ==
    [stage |-> stage, op |-> op, idx |-> idx, arg |-> arg, res |-> res,
     out |-> out]

NoneSucceeded == [s \in StageNames |-> {}]

\* ---------------------------------------------------------------- __init__
InitPipeline ==
    /\ status = "initialized"
    /\ stages = EmptyDict
    /\ start_time = FALSE
    /\ end_time = FALSE
    /\ output_dir = EmptyDict
    /\ pipeline_id = 0
    /\ extractors = <<>>
    /\ extraction_results = EmptyDict
    /\ extraction_stats = [total_extractors |-> 0, successful_extractions |-> 0,
                           failed_extractions |-> 0]
    /\ transformers = <<>>
    /\ transformation_results = EmptyDict
    /\ current_data = NoData
    /\ loaders = <<>>
    /\ loading_results = EmptyDict
    /\ loading_stats = EmptyDict
    /\ transformed_data = NoData
    /\ successful_loadings = 0
    /\ failed_loadings = 0
    /\ pc = "idle"
    /\ i = 0
    /\ result = "None"
    /\ runs = 0
    /\ invoked = <<>>
    /\ succeeded = NoneSucceeded
    /\ stage_returns = <<>>
    /\ calls = <<>>
    /\ now = 0
    /\ script_pc = "none"
    /\ script_calls = 0
    /\ script_result = "None"

\* No component is called on its own.
Init ==
    /\ InitPipeline
    /\ input_data = NoData
    /\ config = EmptyDict
    /\ outputs = <<>>


\* Non-empty lists of at most n names (the argument of a configure_* call).
Lists(names, n) == UNION {[1..k -> names] : k \in 1..n}

\* ------------------------------------------------------------ configure_*
\* ETLPipeline.configure_extraction -> ExtractionOrchestrator.add_extractor
configure_extraction ==
    /\ pc = "idle"
    /\ Len(extractors) < MaxComponents
    /\ \E xs \in Lists(ExtractorNames, MaxComponents - Len(extractors)) :
          /\ (extractors \o xs)[1] = "uci_mushroom"
          /\ extractors' = extractors \o xs
          /\ extraction_stats' =
                [extraction_stats EXCEPT !.total_extractors = Len(extractors \o xs)]
    /\ UNCHANGED <<pipeline_vars, extraction_results, transformation_vars,
                   loading_vars, control_vars, history_vars>>
    /\ UNCHANGED <<script_vars, component_vars>>

\* ETLPipeline.configure_transformation -> TransformationPipeline.add_transformer
configure_transformation ==
    /\ pc = "idle"
    /\ Len(transformers) < MaxComponents
    /\ \E xs \in Lists(TransformerNames, MaxComponents - Len(transformers)) :
          transformers' = transformers \o xs
    /\ UNCHANGED <<pipeline_vars, extraction_vars, transformation_results,
                   current_data, loading_vars, control_vars, history_vars>>
    /\ UNCHANGED <<script_vars, component_vars>>

\* ETLPipeline.configure_loading -> LoadingPipeline.add_loader
configure_loading ==
    /\ pc = "idle"
    /\ Len(loaders) < MaxComponents
    /\ \E xs \in Lists(LoaderNames, MaxComponents - Len(loaders)) :
          /\ (loaders \o xs)[1] = "file_loader"
          /\ loaders' = loaders \o xs
    /\ UNCHANGED <<pipeline_vars, extraction_vars, transformation_vars,
                   loading_results, loading_stats, transformed_data,
                   successful_loadings, failed_loadings, control_vars,
                   history_vars>>
    /\ UNCHANGED <<script_vars, component_vars>>

\* ------------------------------------------------------------ run_pipeline
\* The return of a _run_*_stage method.
StageReturn(stage, success) == [stage |-> stage, success |-> success]

\* run_pipeline returns: the locals of the orchestrators' loops are gone.
Return(value) ==
    /\ result' = value
    /\ pc' = "idle"
    /\ i' = 0
    /\ current_data' = NoData
    /\ transformed_data' = NoData
    /\ successful_loadings' = 0
    /\ failed_loadings' = 0
    /\ calls' = <<>>

\* A failure branch that returns without setting the status.
PipelineFails_running ==
    /\ UNCHANGED status
    /\ end_time' = TRUE
    /\ Return("False")

\* A failure branch pasted from the success branch with its status.
PipelineFails_completed ==
    /\ status' = "completed"
    /\ end_time' = TRUE
    /\ Return("False")

\* What run_pipeline does when a stage method returned False (lines 96-100,
\* 106-110, 116-120): status failed, end_time set, return False.
PipelineFails ==
    /\ status' = "failed"
    /\ end_time' = TRUE
    /\ Return("False")

\* What run_pipeline does when the three stage methods returned True (lines
\* 122-127).
PipelineCompletes ==
    /\ status' = "completed"
    /\ end_time' = TRUE
    /\ Return("True")

\* A run_pipeline that goes on to the next stage whatever the stage returned.
proceeds_always(stage_success) == TRUE

\* run_pipeline: `if not <stage>_success: return False` after each stage
proceeds(stage_success) == stage_success

\* A loop that calls a failing component again.
next_position_retrying(pos, failed, n) == IF failed THEN pos ELSE pos + 1

\* A loop that a failing component ends (the try around the for).
next_position_aborting(pos, failed, n) == IF failed THEN n + 1 ELSE pos + 1

\* for ... in self.<components>: try ... except: the loop goes on to the
\* next component whether this one failed or not.
next_position(pos, failed, n) == pos + 1

\* A run_all_extractions that keeps the results of the call before.
stale_results == extraction_results

\* run_all_extractions: self.results = {}
fresh_results == EmptyDict

\* A run_pipeline that forgets to set the status.
status_not_set == status

\* run_pipeline: self.stats["status"] = "running"
status_when_started == "running"

\* run_pipeline up to the first extractor: status running, then
\* _run_extraction_stage calls run_all_extractions, which empties results.
run_pipeline ==
    /\ pc = "idle"
    /\ runs < MaxRuns
    /\ status' = status_when_started
    /\ start_time' = TRUE
    /\ extraction_results' = fresh_results
    /\ pc' = "extraction"
    /\ i' = 1
    /\ result' = "pending"
    /\ runs' = runs + 1
    /\ invoked' = <<>>
    /\ succeeded' = NoneSucceeded
    /\ stage_returns' = <<>>
    /\ calls' = <<>>
    /\ UNCHANGED <<stages, end_time, output_dir, pipeline_id, extractors, extraction_stats,
                   transformation_vars, loading_vars>>
    /\ UNCHANGED <<script_vars, component_vars>>

\* One iteration of the loop of ExtractionOrchestrator.run_all_extractions.
\* validate raising lands in the same except branch as extract raising.
\* The table extracted has rows: the extractors' validate methods reject an
\* empty table, and nothing in the stage reads a rejected table.
run_extractor ==
    /\ pc = "extraction"
    /\ i <= Len(extractors)
    /\ \E raises, valid \in BOOLEAN :
          LET data == Table("extraction", i, runs, FALSE)
              name == extractors[i]
          IN  IF raises
              THEN /\ ~valid
                   /\ extraction_stats' = [extraction_stats EXCEPT
                         !.failed_extractions = @ + 1]
                   /\ calls' =
                         << Call("extraction", "extract", i, NoData, "raised", NoData) >>
                   /\ UNCHANGED <<extraction_results, succeeded>>
              ELSE /\ calls' =
                         << Call("extraction", "extract", i, NoData, "returned", data),
                            Call("extraction", "validate", i, data,
                                 IF valid THEN "True" ELSE "False", NoData) >>
                   /\ IF valid
                      THEN /\ extraction_results' = Put(extraction_results, name, data)
                           /\ extraction_stats' = [extraction_stats EXCEPT
                                 !.successful_extractions = @ + 1]
                           /\ succeeded' = [succeeded EXCEPT !.extraction = @ \cup {i}]
                      ELSE /\ extraction_stats' = [extraction_stats EXCEPT
                                 !.failed_extractions = @ + 1]
                           /\ UNCHANGED <<extraction_results, succeeded>>
    /\ invoked' = Append(invoked, <<"extraction", i>>)
    /\ i' = next_position(i, i \notin succeeded'.extraction, Len(extractors))
    /\ UNCHANGED <<pipeline_vars, extractors, transformation_vars, loading_vars,
                   pc, result, runs, stage_returns>>
    /\ UNCHANGED <<script_vars, component_vars>>

\* pd.concat(extraction_results.values(), ignore_index=True)
combined_data(results, run) ==
    Table("combined", 0, run, \A n \in DOMAIN results : results[n].empty)

\* _run_extraction_stage: `if not extraction_results` is the failure
extraction_succeeded(results) == results # EmptyDict

\* End of run_all_extractions and the rest of _run_extraction_stage (which
\* records the stage only when it succeeds); then run_pipeline goes on into
\* _run_transformation_stage (which returns False without recording the
\* stage when there are no extraction results) up to the first transformer
\* (current_data = data.copy()).
finish_extraction ==
    /\ pc = "extraction"
    /\ i > Len(extractors)
    /\ LET ok == extraction_succeeded(extraction_results)
       IN  /\ stages' = IF ok THEN Put(stages, "extraction", [success |-> TRUE])
                              ELSE stages
           /\ IF ~proceeds(ok)
              THEN /\ PipelineFails
                   /\ stage_returns' =
                         Append(stage_returns, StageReturn("extraction", ok))
              ELSE IF extraction_results = EmptyDict
                   THEN /\ PipelineFails
                        /\ stage_returns' = stage_returns \o
                              << StageReturn("extraction", ok),
                                 StageReturn("transformation", FALSE) >>
                   ELSE /\ stage_returns' =
                              Append(stage_returns, StageReturn("extraction", ok))
                        /\ current_data' = copy(combined_data(extraction_results, runs))
                        /\ pc' = "transformation"
                        /\ i' = 1
                        /\ calls' = <<>>
                        /\ UNCHANGED <<status, end_time, result, transformed_data,
                                       successful_loadings, failed_loadings>>
    /\ UNCHANGED <<start_time, output_dir, pipeline_id, extraction_vars,
                   transformers,
                   transformation_results, loaders, loading_results,
                   loading_stats, runs, invoked, succeeded>>
    /\ UNCHANGED <<script_vars, component_vars>>

\* A loop that hands on whatever transform returned.
data_passed_on_unvalidated(current, out, valid) == out

\* run_transformations: current_data = transformed_data only under
\* `if transformer.validate(transformed_data)`
data_passed_on(current, out, valid) == IF valid THEN out ELSE current

\* One iteration of the loop of TransformationPipeline.run_transformations.
\* validate raising lands in the same except branch as transform raising.
run_transformer ==
    /\ pc = "transformation"
    /\ i <= Len(transformers)
    /\ \E raises, empty, valid \in BOOLEAN :
          LET out == Table("transformation", i, runs, empty)
              name == transformers[i]
          IN  IF raises
              THEN /\ ~empty
                   /\ ~valid
                   /\ calls' =
                         << Call("transformation", "transform", i, current_data,
                                 "raised", NoData) >>
                   /\ UNCHANGED <<transformation_results, current_data, succeeded>>
              ELSE /\ calls' =
                         << Call("transformation", "transform", i, current_data,
                                 "returned", out),
                            Call("transformation", "validate", i, out,
                                 IF valid THEN "True" ELSE "False", NoData) >>
                   /\ current_data' = data_passed_on(current_data, out, valid)
                   /\ IF valid
                      THEN /\ transformation_results' =
                                 Put(transformation_results, name, out)
                           /\ succeeded' = [succeeded EXCEPT !.transformation = @ \cup {i}]
                      ELSE UNCHANGED <<transformation_results, succeeded>>
    /\ invoked' = Append(invoked, <<"transformation", i>>)
    /\ i' = next_position(i, i \notin succeeded'.transformation, Len(transformers))
    /\ UNCHANGED <<pipeline_vars, extraction_vars, transformers, loading_vars,
                   pc, result, runs, stage_returns>>
    /\ UNCHANGED <<script_vars, component_vars>>

\* dict.get(key): None when the key is missing
Get(d, k) == IF k \in DOMAIN d THEN d[k] ELSE NoData

\* _run_loading_stage: the table handed to the loaders
data_for_loading(results) == Get(results, "feature_engineer")

\* _run_transformation_stage: `if transformed_data.empty` is the failure
transformation_succeeded(data) == ~data.empty

\* _run_loading_stage: `if transformed_data is None or transformed_data.empty`
\* is a failure before any loader is called
loading_data_available(data) == data # NoData /\ ~data.empty

\* End of run_transformations and the rest of _run_transformation_stage
\* (which records the stage only when it succeeds); then run_pipeline goes
\* on into _run_loading_stage up to the first loader.
finish_transformation ==
    /\ pc = "transformation"
    /\ i > Len(transformers)
    /\ LET ok == transformation_succeeded(current_data)
           data == data_for_loading(transformation_results)
       IN  /\ stages' = IF ok THEN Put(stages, "transformation", [success |-> TRUE])
                              ELSE stages
           /\ IF ~proceeds(ok)
              THEN /\ PipelineFails
                   /\ stage_returns' =
                         Append(stage_returns, StageReturn("transformation", ok))
              ELSE IF ~loading_data_available(data)
                   THEN /\ PipelineFails
                        /\ stage_returns' = stage_returns \o
                              << StageReturn("transformation", ok),
                                 StageReturn("loading", FALSE) >>
                   ELSE /\ stage_returns' =
                              Append(stage_returns, StageReturn("transformation", ok))
                        /\ transformed_data' = data
                        /\ successful_loadings' = 0
                        /\ failed_loadings' = 0
                        /\ pc' = "loading"
                        /\ i' = 1
                        /\ calls' = <<>>
                        /\ current_data' = NoData
                        /\ UNCHANGED <<status, end_time, result>>
    /\ UNCHANGED <<start_time, output_dir, pipeline_id, extraction_vars,
                   transformers,
                   transformation_results, loaders, loading_results,
                   loading_stats, runs, invoked, succeeded>>
    /\ UNCHANGED <<script_vars, component_vars>>

\* The destinations argument of the run_loadings call on the stack.
\* _run_loading_stage passes none, and None and {} are alike false at
\* `if destinations and loader.name in destinations`.
destinations ==
    IF "destinations" \in DOMAIN config THEN config.destinations ELSE EmptyDict

\* A loop that never looks a destination up.
destination_ignored(dests, name) == "None"

\* run_loadings: destination = None, or destinations[loader.name] when
\* destinations has the name
destination_for(dests, name) ==
    IF name \in DOMAIN dests THEN dests[name] ELSE "None"

\* loader.load(data, destination) and how it ended
LoadCall(idx, arg, destination, res) ==
    [stage |-> "loading", op |-> "load", idx |-> idx, arg |-> arg,
     res |-> res, out |-> NoData, destination |-> destination]

\* One iteration of the loop of LoadingPipeline.run_loadings: validate
\* returns False ("invalid") or raises ("validate_raised"), or it returns
\* True and load raises ("raised") or returns False or True.  The two raises
\* land in the same except branch.
run_loader ==
    /\ pc = "loading"
    /\ i <= Len(loaders)
    /\ \E outcome \in {"invalid", "validate_raised", "raised", "False", "True"} :
          LET name == loaders[i]
              validated(res) ==
                  Call("loading", "validate", i, transformed_data, res, NoData)
              loaded(res) ==
                  LoadCall(i, transformed_data,
                           destination_for(destinations, name), res)
          IN  IF outcome = "invalid"
              THEN /\ failed_loadings' = failed_loadings + 1
                   /\ calls' = << validated("False") >>
                   /\ UNCHANGED <<loading_results, successful_loadings, succeeded>>
              ELSE /\ calls' = IF outcome = "validate_raised"
                               THEN << validated("raised") >>
                               ELSE << validated("True"), loaded(outcome) >>
                   /\ loading_results' = Put(loading_results, name, outcome = "True")
                   /\ IF outcome = "True"
                      THEN /\ successful_loadings' = successful_loadings + 1
                           /\ succeeded' = [succeeded EXCEPT !.loading = @ \cup {i}]
                           /\ UNCHANGED failed_loadings
                      ELSE /\ failed_loadings' = failed_loadings + 1
                           /\ UNCHANGED <<successful_loadings, succeeded>>
    /\ invoked' = Append(invoked, <<"loading", i>>)
    /\ i' = next_position(i, i \notin succeeded'.loading, Len(loaders))
    /\ UNCHANGED <<pipeline_vars, extraction_vars, transformation_vars, loaders,
                   loading_stats, transformed_data, pc, result, runs,
                   stage_returns>>
    /\ UNCHANGED <<script_vars, component_vars>>

\* A run_loadings that wants every loader to succeed.
loadings_succeeded_all(successful) == successful = Len(loaders)

\* run_loadings: success = successful_loadings > 0
loadings_succeeded(successful) == successful > 0

\* End of run_loadings, the rest of _run_loading_stage (which records the
\* stage only when it succeeds) and of run_pipeline.
finish_loading ==
    /\ pc = "loading"
    /\ i > Len(loaders)
    /\ loading_stats' = [successful_loadings |-> successful_loadings,
                         failed_loadings |-> failed_loadings,
                         total_loaders |-> Len(loaders)]
    /\ LET ok == loadings_succeeded(successful_loadings)
       IN  /\ stages' = IF ok THEN Put(stages, "loading", [success |-> TRUE])
                              ELSE stages
           /\ stage_returns' = Append(stage_returns, StageReturn("loading", ok))
           /\ IF ~proceeds(ok) THEN PipelineFails ELSE PipelineCompletes
    /\ UNCHANGED <<start_time, output_dir, pipeline_id, extraction_vars,
                   transformers,
                   transformation_results, loaders, loading_results, runs,
                   invoked, succeeded>>
    /\ UNCHANGED <<script_vars, component_vars>>

\* ------------------------------------------------------------- observers
\* get_pipeline_stats returns self.stats itself and changes nothing.
pipeline_stats ==
    [status |-> status, start_time |-> start_time, end_time |-> end_time,
     stages |-> stages]

get_pipeline_stats ==
    /\ pc = "idle"
    /\ UNCHANGED vars

\* The dict get_pipeline_health builds from self.stats.
pipeline_health ==
    [status |-> status,
     stages_completed |-> Cardinality({s \in DOMAIN stages : stages[s].success}),
     total_stages |-> 3,
     overall_health |-> IF status = "completed" THEN "healthy" ELSE "unhealthy"]

get_pipeline_health ==
    /\ pc = "idle"
    /\ UNCHANGED vars

\* json.dump(self.stats) into <pipeline_id>_pipeline_logs.json
save_pipeline_logs ==
    /\ pc = "idle"
    /\ output_dir' = Put(output_dir, pipeline_id,
                          LogFile(pipeline_stats, script_calls, runs))
    /\ UNCHANGED <<status, stages, start_time, end_time, pipeline_id,
                   extraction_vars,
                   transformation_vars, loading_vars, control_vars,
                   history_vars>>
    /\ UNCHANGED <<script_vars, component_vars>>

\* The dict LoadingPipeline.get_loading_summary builds from self.results.
loading_summary ==
    [total_loaders |-> Len(loaders),
     successful_loadings |->
        Cardinality({n \in DOMAIN loading_results : loading_results[n]}),
     failed_loadings |->
        Cardinality({n \in DOMAIN loading_results : ~loading_results[n]}),
     loaders |-> [n \in DOMAIN loading_results |->
                     [success |-> loading_results[n],
                      status |-> IF loading_results[n] THEN "successful"
                                 ELSE "failed"]]]

\* The dict ExtractionOrchestrator.get_extraction_summary builds: a copy of
\* self.stats with results_count = len(self.results) added.
extraction_summary ==
    [total_extractors |-> extraction_stats.total_extractors,
     successful_extractions |-> extraction_stats.successful_extractions,
     failed_extractions |-> extraction_stats.failed_extractions,
     results_count |-> Cardinality(DOMAIN extraction_results),
     extractors |-> [n \in DOMAIN extraction_results |-> [success |-> TRUE]]]

Next ==
    \/ configure_extraction
    \/ configure_transformation
    \/ configure_loading
    \/ run_pipeline
    \/ run_extractor
    \/ finish_extraction
    \/ run_transformer
    \/ finish_transformation
    \/ run_loader
    \/ finish_loading
    \/ get_pipeline_stats
    \/ get_pipeline_health
    \/ save_pipeline_logs

Spec == Init /\ [][Next]_vars

\* ------------------------------------------------ scripts/run_complete_etl.py
\* The script's own control flow, with components that exist: the
\* constructors it calls are taken to return their object.  As written,
\* UCIMushroomExtractor() reads config.uci_mushroom_url, which ETLConfig does
\* not have (uci_mushroom_extractor.py:19), and DatabaseLoader(...) reads
\* config.database of its own dict argument (database_loader.py:22); either
\* AttributeError is caught by the script's except and makes it return False
\* before any call on the pipeline.
\* Number of run_complete_etl calls (each builds its own ETLPipeline).
MaxScriptCalls == 2
\* Last second of the clock.
MaxClock == 1

\* A second passes.  The clock is read by ETLPipeline.__init__ only, so it
\* is let tick between two run_complete_etl calls only.
tick ==
    /\ script_pc # "running"
    /\ now < MaxClock
    /\ now' = now + 1
    /\ UNCHANGED <<pipeline_vars, extraction_vars, transformation_vars,
                   loading_vars, control_vars, history_vars, script_pc,
                   script_calls, script_result, component_vars>>

\* run_complete_etl is called: pipeline = ETLPipeline(), a new object with
\* new orchestrators, whose pipeline_id is etl_<now, to the second>.
run_complete_etl ==
    /\ script_pc # "running"
    /\ script_calls < MaxScriptCalls
    /\ script_pc' = "running"
    /\ script_calls' = script_calls + 1
    /\ script_result' = "pending"
    /\ pipeline_id' = now
    /\ status' = "initialized"
    /\ stages' = EmptyDict
    /\ start_time' = FALSE
    /\ end_time' = FALSE
    /\ extractors' = <<>>
    /\ extraction_results' = EmptyDict
    /\ extraction_stats' = [total_extractors |-> 0, successful_extractions |-> 0,
                            failed_extractions |-> 0]
    /\ transformers' = <<>>
    /\ transformation_results' = EmptyDict
    /\ current_data' = NoData
    /\ loaders' = <<>>
    /\ loading_results' = EmptyDict
    /\ loading_stats' = EmptyDict
    /\ transformed_data' = NoData
    /\ successful_loadings' = 0
    /\ failed_loadings' = 0
    /\ pc' = "idle"
    /\ i' = 0
    /\ result' = "None"
    /\ runs' = 0
    /\ invoked' = <<>>
    /\ succeeded' = NoneSucceeded
    /\ stage_returns' = <<>>
    /\ calls' = <<>>
    /\ UNCHANGED <<output_dir, now, component_vars>>

\* pipeline.configure_extraction([extractor])
etl_configure_extraction ==
    /\ script_pc = "running"
    /\ extractors = <<>>
    /\ configure_extraction
    /\ extractors' = <<"uci_mushroom">>

\* pipeline.configure_transformation([cleaner, engineer])
etl_configure_transformation ==
    /\ script_pc = "running"
    /\ extractors # <<>>
    /\ transformers = <<>>
    /\ configure_transformation
    /\ transformers' = <<"data_cleaner", "feature_engineer">>

\* pipeline.configure_loading([db_loader, file_loader]) (the two loaders'
\* names are keys of the results mapping only: they are listed in the order
\* configure_loading enumerates)
etl_configure_loading ==
    /\ script_pc = "running"
    /\ transformers # <<>>
    /\ loaders = <<>>
    /\ configure_loading
    /\ loaders' = <<"file_loader", "database_loader">>

\* success = pipeline.run_pipeline()
etl_run_pipeline ==
    /\ script_pc = "running"
    /\ loaders # <<>>
    /\ runs = 0
    /\ run_pipeline

\* The file of this object holds the stats of this run.
logs_saved ==
    /\ pipeline_id \in DOMAIN output_dir
    /\ output_dir[pipeline_id].object = script_calls
    /\ output_dir[pipeline_id].run = runs

\* if success: stats = pipeline.get_pipeline_stats() and the printing
etl_print_statistics ==
    /\ script_pc = "running"
    /\ result = "True"
    /\ ~logs_saved
    /\ get_pipeline_stats

\* if success: pipeline.save_pipeline_logs()
etl_save_pipeline_logs ==
    /\ script_pc = "running"
    /\ result = "True"
    /\ ~logs_saved
    /\ save_pipeline_logs

\* return True after the logs were saved; else: return False
run_complete_etl_returns ==
    /\ script_pc = "running"
    /\ pc = "idle"
    /\ \/ result = "True" /\ logs_saved
       \/ result = "False"
    /\ script_pc' = "returned"
    /\ script_result' = result
    /\ UNCHANGED <<pipeline_vars, extraction_vars, transformation_vars,
                   loading_vars, control_vars, history_vars, now,
                   script_calls, component_vars>>

ScriptNext ==
    \/ tick
    \/ run_complete_etl
    \/ etl_configure_extraction
    \/ etl_configure_transformation
    \/ etl_configure_loading
    \/ etl_run_pipeline
    \/ run_extractor
    \/ finish_extraction
    \/ run_transformer
    \/ finish_transformation
    \/ run_loader
    \/ finish_loading
    \/ etl_print_statistics
    \/ etl_save_pipeline_logs
    \/ run_complete_etl_returns

ScriptSpec == Init /\ [][ScriptNext]_vars

\* ------------------------------------------------- components on their own
\* Most rows of a table a component is called with.
MaxRows == 3
\* Most calls of a component in a row, each on the output of the one before.
MaxApplications == 2

\* A missing value (numpy.nan, None).
NaN == "<NaN>"

\* A pandas DataFrame with its cells: the column names, the dtype of each
\* column and the rows in order, a row being a function column -> value.
DataFrame(columns, dtypes, rows) ==
    [columns |-> columns, dtypes |-> dtypes, rows |-> rows]

\* The tables of at most n rows over the given columns and values.
DataFrames(columns, dtypes, values, n) ==
    { DataFrame(columns, dtypes, rows) :
         rows \in UNION { [1..k -> [columns -> values]] : k \in 0..n } }

\* DataFrame.empty: an axis of length 0
empty(df) == Len(df.rows) = 0 \/ df.columns = {}

\* data.isnull().sum().sum()
missing_count(df) ==
    LET cells == {<<k, c>> \in (1..Len(df.rows)) \X df.columns : df.rows[k][c] = NaN}
    IN  Cardinality(cells)

\* data[col].isnull().sum()
missing_in(df, c) == Cardinality({k \in 1..Len(df.rows) : df.rows[k][c] = NaN})

\* DataFrame.drop_duplicates(): the first of equal rows is kept
drop_duplicates(df) ==
    LET RECURSIVE kept(_)
        kept(k) ==
            IF k = 0 THEN <<>>
            ELSE IF \E j \in 1..(k - 1) : df.rows[j] = df.rows[k]
                 THEN kept(k - 1)
                 ELSE Append(kept(k - 1), df.rows[k])
    IN  [df EXCEPT !.rows = kept(Len(df.rows))]

\* DataFrame.drop(columns=cols)
drop_columns(df, cols) ==
    LET left == df.columns \ cols
    IN  DataFrame(left, [c \in left |-> df.dtypes[c]],
                  [k \in 1..Len(df.rows) |-> [c \in left |-> df.rows[k][c]]])

\* DataFrame.dropna(): the rows without a missing value
dropna(df) ==
    [df EXCEPT !.rows = SelectSeq(df.rows, LAMBDA r : \A c \in df.columns : r[c] # NaN)]

\* DataCleaner._handle_missing_values with handle_missing == "drop" and
\* missing_threshold == 0.5: the columns with more than half of their values
\* missing are dropped, then the rows with a missing value.
handle_missing_values(df) ==
    LET missing_cols == {c \in df.columns : missing_in(df, c) > 0}
        cols_to_drop == {c \in missing_cols : 2 * missing_in(df, c) > Len(df.rows)}
    IN  IF missing_cols = {} THEN df
        ELSE dropna(drop_columns(df, cols_to_drop))

\* DataCleaner._handle_outliers: a table without a numeric column is
\* returned as it is (the tables here hold categorical columns only).
handle_outliers(df) == df

\* str.lower().str.strip() and the collapsing of whitespace, on the values
\* of this model.
lower_strip(v) == IF v = "X" THEN "x" ELSE v

\* DataCleaner._standardize_text: every column of dtype object
standardize_text(df) ==
    [df EXCEPT !.rows =
        [k \in 1..Len(df.rows) |->
            [c \in df.columns |->
                IF df.dtypes[c] = "object" THEN lower_strip(df.rows[k][c])
                ELSE df.rows[k][c]]]]

\* DataCleaner.transform: the table returned and stats["duplicates_removed"]
DataCleaner_transform(df, cfg) ==
    LET deduplicated == IF cfg.remove_duplicates THEN drop_duplicates(df) ELSE df
        without_missing == handle_missing_values(deduplicated)
        without_outliers == handle_outliers(without_missing)
        cleaned == IF cfg.standardize_text
                   THEN standardize_text(without_outliers) ELSE without_outliers
    IN  [table |-> cleaned,
         duplicates_removed |-> Len(df.rows) - Len(deduplicated.rows)]

\* The tables DataCleaner is called with: two categorical columns whose
\* values differ by case or are missing.
CleanerColumns == {"cap-shape", "odor"}
CleanerValues == {"x", "X", NaN}
CleanerFrames ==
    DataFrames(CleanerColumns, [c \in CleanerColumns |-> "object"],
               CleanerValues, MaxRows)

InitCleaner ==
    /\ InitPipeline
    /\ input_data \in CleanerFrames
    /\ config \in [remove_duplicates : BOOLEAN, standardize_text : BOOLEAN]
    /\ outputs = <<>>

\* cleaner.transform(data), then cleaner.transform of what it returned
clean ==
    /\ Len(outputs) < MaxApplications
    /\ LET arg == IF outputs = <<>> THEN input_data
                  ELSE outputs[Len(outputs)].table
       IN  outputs' = Append(outputs, DataCleaner_transform(arg, config))
    /\ UNCHANGED <<pipeline_vars, extraction_vars, transformation_vars,
                   loading_vars, control_vars, history_vars, script_vars,
                   input_data, config>>

CleanerNext == clean

CleanerSpec == InitCleaner /\ [][CleanerNext]_vars

\* ------------------------------------------------------- FeatureEngineer
\* default_config["n_features"]
default_n_features == 20

NumericDtypes == {"int64", "float64", "uint8"}

\* data.select_dtypes(include=['object']).columns
categorical_cols(df) == {c \in df.columns : df.dtypes[c] = "object"}

\* data.select_dtypes(include=[np.number]).columns (bool is not a number)
numeric_cols(df) == {c \in df.columns : df.dtypes[c] \in NumericDtypes}

\* The categories of a column: its values, but for the missing ones.
categories(df, c) == {df.rows[k][c] : k \in 1..Len(df.rows)} \ {NaN}

\* The name get_dummies gives to the indicator column of a category.
indicator(c, v) == c \o "_" \o v

\* An indicator cell: True/False where get_dummies makes bool columns
\* (pandas 2), 1/0 where it makes uint8 columns (pandas 1).
truth(b, dtype) ==
    IF dtype = "bool" THEN (IF b THEN "True" ELSE "False")
    ELSE (IF b THEN "1" ELSE "0")

\* pd.get_dummies(data, columns=cols, prefix=cols): the other columns are
\* kept, each category present in a column of cols gets an indicator column.
get_dummies(df, cols, dtype) ==
    LET kept == df.columns \ cols
        dummies == {p \in cols \X UNION {categories(df, c) : c \in cols} :
                       p[2] \in categories(df, p[1])}
        of(col) == CHOOSE p \in dummies : indicator(p[1], p[2]) = col
        columns == kept \cup {indicator(p[1], p[2]) : p \in dummies}
    IN  DataFrame(columns,
                  [col \in columns |-> IF col \in kept THEN df.dtypes[col] ELSE dtype],
                  [k \in 1..Len(df.rows) |->
                      [col \in columns |->
                          IF col \in kept THEN df.rows[k][col]
                          ELSE truth(df.rows[k][of(col)[1]] = of(col)[2], dtype)]])

\* A small number as pandas prints it.
Str(n) == CASE n = 0 -> "0" [] n = 1 -> "1" [] n = 2 -> "2" [] OTHER -> "3"

\* The order of the values LabelEncoder sorts its classes by.
Sorted == <<"a", "n">>

\* LabelEncoder().fit_transform: the rank of the value among those present
label(v, present) ==
    Str(Cardinality({u \in present :
           \E j, k \in 1..Len(Sorted) : Sorted[j] = u /\ Sorted[k] = v /\ j < k}))

\* FeatureEngineer._encode_categorical
encode_categorical(df, cfg) ==
    IF categorical_cols(df) = {} THEN df
    ELSE IF cfg.categorical_encoding = "onehot"
         THEN get_dummies(df, categorical_cols(df), cfg.dummies_dtype)
         ELSE DataFrame(df.columns,
                        [c \in df.columns |->
                            IF c \in categorical_cols(df) THEN "int64" ELSE df.dtypes[c]],
                        [k \in 1..Len(df.rows) |->
                            [c \in df.columns |->
                                IF c \in categorical_cols(df)
                                THEN label(df.rows[k][c], categories(df, c))
                                ELSE df.rows[k][c]]])

\* FeatureEngineer._scale_features: StandardScaler on the numeric columns,
\* whose values become z-scores
scale_features(df) ==
    IF numeric_cols(df) = {} THEN df
    ELSE DataFrame(df.columns,
                   [c \in df.columns |->
                       IF c \in numeric_cols(df) THEN "float64" ELSE df.dtypes[c]],
                   [k \in 1..Len(df.rows) |->
                       [c \in df.columns |->
                           IF c \in numeric_cols(df)
                           THEN "scaled(" \o df.rows[k][c] \o ")"
                           ELSE df.rows[k][c]]])

\* min(a, b)
min(a, b) == IF a <= b THEN a ELSE b

\* FeatureEngineer._select_features: the tables it may return.  SelectKBest
\* keeps k of the numeric columns (which ones is up to the scores), and
\* selected_data[selected_columns] keeps those columns only.
select_features(df, cfg) ==
    IF numeric_cols(df) = {} THEN {df}
    ELSE LET k == min(cfg.n_features, Cardinality(numeric_cols(df)))
         IN  { drop_columns(df, df.columns \ selected) :
                  selected \in {cs \in SUBSET numeric_cols(df) : Cardinality(cs) = k} }

\* pd.concat([features, target], axis=1)
concat(features, df, target) ==
    LET columns == features.columns \cup {target}
    IN  DataFrame(columns,
                  [c \in columns |-> IF c = target THEN df.dtypes[c]
                                     ELSE features.dtypes[c]],
                  [k \in 1..Len(df.rows) |->
                      [c \in columns |-> IF c = target THEN df.rows[k][c]
                                         ELSE features.rows[k][c]]])

\* FeatureEngineer.transform (create_interactions is False): the tables it
\* may return.
FeatureEngineer_transform(df, cfg) ==
    LET has_target == cfg.target_column \in df.columns
        features == IF has_target THEN drop_columns(df, {cfg.target_column}) ELSE df
        encoded == encode_categorical(features, cfg)
        scaled == IF cfg.feature_scaling THEN scale_features(encoded) ELSE encoded
        selections == IF cfg.feature_selection /\ has_target
                      THEN select_features(scaled, cfg) ELSE {scaled}
    IN  { IF has_target THEN concat(f, df, cfg.target_column) ELSE f :
             f \in selections }

\* The tables FeatureEngineer is called with: a categorical feature, with
\* or without the target column and a numeric feature, no value missing.
EngineerValues ==
    [class |-> {"e", "p"}, odor |-> {"a", "n"}, rings |-> {"1", "2"}]
EngineerDtypes == [class |-> "object", odor |-> "object", rings |-> "int64"]
EngineerColumns ==
    {{"odor"}, {"class", "odor"}, {"odor", "rings"}, {"class", "odor", "rings"}}
EngineerFrames ==
    UNION { { DataFrame(columns, [c \in columns |-> EngineerDtypes[c]], rows) :
                rows \in UNION { [1..k -> { r \in [columns -> {"e", "p", "a", "n", "1", "2"}] :
                                              \A c \in columns : r[c] \in EngineerValues[c] }] :
                                 k \in 1..MaxRows } } :
            columns \in EngineerColumns }

InitEngineer ==
    /\ InitPipeline
    /\ input_data \in EngineerFrames
    /\ config \in [target_column : {"class"},
                   categorical_encoding : {"onehot", "label"},
                   feature_scaling : BOOLEAN,
                   feature_selection : BOOLEAN,
                   n_features : {1, default_n_features},
                   dummies_dtype : {"bool", "uint8"}]
    /\ outputs = <<>>

\* engineer.transform(data)
engineer ==
    /\ outputs = <<>>
    /\ \E table \in FeatureEngineer_transform(input_data, config) :
          outputs' = << [table |-> table] >>
    /\ UNCHANGED <<pipeline_vars, extraction_vars, transformation_vars,
                   loading_vars, control_vars, history_vars, script_vars,
                   input_data, config>>

EngineerNext == engineer

EngineerSpec == InitEngineer /\ [][EngineerNext]_vars

\* ------------------------------------------------- the extractors' validate
\* Most rows of a table validate is called with.
MaxValidatedRows == 2

\* UCIMushroomExtractor.validate: required_columns
required_columns == {"class", "cap-shape", "cap-surface", "cap-color"}

\* More than half of the cells are missing: missing_percentage > 50 in
\* FileExtractor.validate, null_percentage > 0.5 in APIExtractor.validate.
\* Asked of non-empty tables only.
high_missing(df) == 2 * missing_count(df) > Len(df.rows) * Cardinality(df.columns)

\* UCIMushroomExtractor.validate (missing values make a warning only)
UCIMushroomExtractor_validate(df) ==
    IF empty(df) THEN FALSE
    ELSE IF required_columns \ df.columns # {} THEN FALSE
    ELSE IF df.dtypes["class"] # "object" THEN FALSE
    ELSE TRUE

\* A FileExtractor.validate that rejects what it warns about.
FileExtractor_validate_strict(df) ==
    IF empty(df) THEN FALSE
    ELSE IF high_missing(df) THEN FALSE
    ELSE TRUE

\* FileExtractor.validate (a high missing percentage makes a warning only)
FileExtractor_validate(df) ==
    IF empty(df) THEN FALSE
    ELSE TRUE

\* APIExtractor.validate, cfg being the extractor's config (a high null
\* percentage makes a warning only)
APIExtractor_validate(df, cfg) ==
    IF empty(df) THEN FALSE
    ELSE IF cfg.required_columns # {} /\ cfg.required_columns \ df.columns # {}
         THEN FALSE
    ELSE TRUE

\* The tables validate is called with: any of the columns the UCI extractor
\* requires, cells with a value or missing, the class column categorical
\* or numeric.
ValidatedFrames ==
    UNION { UNION { DataFrames(columns,
                               [c \in columns |-> IF c = "class" THEN class_dtype
                                                  ELSE "object"],
                               {"x", NaN}, MaxValidatedRows) :
                       class_dtype \in {"object", "float64"} } :
            columns \in SUBSET required_columns }

InitValidate ==
    /\ InitPipeline
    /\ input_data \in ValidatedFrames
    /\ config \in [required_columns : {{}, {"class"}, {"class", "cap-color"}}]
    /\ outputs = <<>>

\* What a validate call returned, and the columns the extractor requires.
Validated(extractor, required, returned) ==
    [extractor |-> extractor, required |-> required, result |-> returned]

validate_frame ==
    UNCHANGED <<pipeline_vars, extraction_vars, transformation_vars,
                loading_vars, control_vars, history_vars, script_vars,
                input_data, config>>

\* UCIMushroomExtractor().validate(data)
validate_uci ==
    /\ outputs = <<>>
    /\ outputs' = << Validated("UCIMushroomExtractor", required_columns,
                               UCIMushroomExtractor_validate(input_data)) >>
    /\ validate_frame

\* FileExtractor(path).validate(data)
validate_file ==
    /\ outputs = <<>>
    /\ outputs' = << Validated("FileExtractor", {},
                               FileExtractor_validate(input_data)) >>
    /\ validate_frame

\* APIExtractor(url, config).validate(data)
validate_api ==
    /\ outputs = <<>>
    /\ outputs' = << Validated("APIExtractor", config.required_columns,
                               APIExtractor_validate(input_data, config)) >>
    /\ validate_frame

ValidateNext ==
    \/ validate_uci
    \/ validate_file
    \/ validate_api

ValidateSpec == InitValidate /\ [][ValidateNext]_vars

\* ------------------------------------------- FileLoader and DatabaseLoader
\* Number of load calls made on the one loader object.
MaxLoads == 2
\* Most rows of a table handed to load.
MaxLoadRows == 2

\* pathlib.Path of a file of output_dir: the name up to its last suffix, and
\* the last suffix ("" when the name has none).
Path(stem, suffix) == [stem |-> stem, suffix |-> suffix]

\* destination = None, or "": both are false at `if destination:` and at
\* `destination or self.config["table_name"]`.
NoDestination == Path("", "")

\* Path.with_suffix: the last suffix replaced, or the suffix appended to a
\* name that has none.
with_suffix(path, suffix) == [path EXCEPT !.suffix = suffix]

\* FileLoader.load: filename = destination, or loaded_data.<file_format>
file_path(cfg, destination) ==
    IF destination # NoDestination THEN destination
    ELSE Path("loaded_data", "." \o cfg.file_format)

\* What to_csv / to_parquet / to_json / to_excel leaves in the file (an
\* unknown file_format is written as csv).
DataFile(data, cfg) ==
    [kind |-> "data",
     written_as |-> IF cfg.file_format \in {"csv", "parquet", "json", "excel"}
                    THEN cfg.file_format ELSE "csv",
     records |-> Len(data.rows)]

\* A file that a write which raised had opened.
PartialFile == [kind |-> "partial"]

\* What _save_metadata dumps.
Metadata(data, cfg) ==
    [kind |-> "metadata", file_format |-> cfg.file_format,
     records_count |-> Len(data.rows), columns |-> data.columns]

\* FileLoader._save_metadata: the metadata goes to file_path.with_suffix
\* ('.json'); a failure to write it is logged and nothing else.
save_metadata(files, data, path, cfg, saved) ==
    IF saved THEN Put(files, with_suffix(path, ".json"), Metadata(data, cfg))
    ELSE files

\* The except branch of load: loading_successful False, the error recorded,
\* False returned.
load_failed(stats, storage, engine) ==
    [returned |-> FALSE, raised |-> FALSE,
     stats |-> Put(Put(stats, "loading_successful", FALSE), "error", "str(e)"),
     storage |-> storage, engine |-> engine]

\* The end of the try of load: the stats of this call, True returned.
load_succeeded(stats, storage, engine, data, where) ==
    [returned |-> TRUE, raised |-> FALSE,
     stats |-> Put(Put(Put(stats, "records_loaded", Len(data.rows)),
                       "destination", where),
                   "loading_successful", TRUE),
     storage |-> storage, engine |-> engine]

\* A load without its try: the write's exception reaches the caller.
FileLoader_load_unguarded(stats, files, data, destination, cfg, write, saved) ==
    IF data = NoData \/ write # "written"
    THEN [returned |-> FALSE, raised |-> TRUE, stats |-> stats,
          storage |-> files, engine |-> FALSE]
    ELSE load_succeeded(stats, Put(files, file_path(cfg, destination),
                                   DataFile(data, cfg)),
                        FALSE, data, file_path(cfg, destination))

\* FileLoader.load.  len(None) raises inside the try; the write raises
\* before it opened the file ("raised") or after ("raised_partial"), or
\* writes the table; then the metadata is saved if save_metadata is set.
FileLoader_load(stats, files, data, destination, cfg, write, saved) ==
    LET path == file_path(cfg, destination)
        written == Put(files, path, DataFile(data, cfg))
    IN  IF data = NoData \/ write = "raised"
        THEN load_failed(stats, files, FALSE)
        ELSE IF write = "raised_partial"
        THEN load_failed(stats, Put(files, path, PartialFile), FALSE)
        ELSE load_succeeded(stats,
                IF cfg.save_metadata
                THEN save_metadata(written, data, path, cfg, saved)
                ELSE written,
                FALSE, data, path)

\* A table of the database: its rows (a count).
SqlTable(records) == [kind |-> "table", records |-> records]

\* DatabaseLoader._create_schema: table.create(checkfirst=True) of the table
\* named in the config (not of the destination), unless create_schema is off.
create_schema(tables, cfg) ==
    IF cfg.create_schema /\ cfg.table_name \notin DOMAIN tables
    THEN Put(tables, cfg.table_name, SqlTable(0))
    ELSE tables

\* DataFrame.to_sql can write: if_exists = "fail" raises on a table that is
\* there.
to_sql_possible(tables, table_name, cfg) ==
    ~(cfg.if_exists = "fail" /\ table_name \in DOMAIN tables)

\* DataFrame.to_sql: the table replaced, or the rows appended.
to_sql(tables, table_name, data, cfg) ==
    IF cfg.if_exists = "append" /\ table_name \in DOMAIN tables
    THEN Put(tables, table_name,
             SqlTable(tables[table_name].records + Len(data.rows)))
    ELSE Put(tables, table_name, SqlTable(Len(data.rows)))

\* DatabaseLoader.load.  len(None) raises inside the try; create_engine
\* raises ("engine_raised", when there is no engine yet), the schema creation
\* raises ("schema_raised"), to_sql raises ("raised"), or the table is
\* written; every raise lands in an except branch of load.
DatabaseLoader_load(stats, tables, engine, data, destination, cfg, write) ==
    LET table_name == IF destination # "" THEN destination ELSE cfg.table_name
        with_schema == create_schema(tables, cfg)
    IN  IF data = NoData THEN load_failed(stats, tables, engine)
        ELSE IF write = "engine_raised" /\ ~engine
        THEN load_failed(stats, tables, FALSE)
        ELSE IF write = "schema_raised"
        THEN load_failed(stats, tables, TRUE)
        ELSE IF write # "written" \/ ~to_sql_possible(with_schema, table_name, cfg)
        THEN load_failed(stats, with_schema, TRUE)
        ELSE load_succeeded(stats, to_sql(with_schema, table_name, data, cfg),
                            TRUE, data, table_name)

\* The tables handed to load (and None).
LoadFrames ==
    DataFrames({"col1"}, [col1 |-> "int64"], {"1"}, MaxLoadRows) \cup {NoData}

FileFormats == {"csv", "json", "parquet", "excel", "tsv"}
FileDestinations ==
    {NoDestination, Path("out", ".csv"), Path("out", ".json"), Path("out", "")}
TableNames == {"", "mushroom_data", "staging"}

FileLoaderConfigs ==
    [loader : {"FileLoader"}, file_format : FileFormats, save_metadata : BOOLEAN]
DatabaseLoaderConfigs ==
    [loader : {"DatabaseLoader"}, table_name : {"mushroom_data"},
     if_exists : {"replace", "append", "fail"}, create_schema : BOOLEAN]

\* One loader with its configuration; nothing loaded yet.
InitLoader ==
    /\ InitPipeline
    /\ input_data = NoData
    /\ config \in FileLoaderConfigs \cup DatabaseLoaderConfigs
    /\ outputs = <<>>

\* The loader after its latest load call: self.stats, the files of
\* output_dir (or the tables of the database), self.engine is set.
loader_state ==
    IF outputs = <<>>
    THEN [stats |-> EmptyDict, storage |-> EmptyDict, engine |-> FALSE]
    ELSE outputs[Len(outputs)]

\* A load call and what it was called with.
Loaded(data, destination, write, call) ==
    [data |-> data, destination |-> destination, write |-> write,
     returned |-> call.returned, raised |-> call.raised, stats |-> call.stats,
     storage |-> call.storage, engine |-> call.engine]

load_called ==
    UNCHANGED <<pipeline_vars, extraction_vars, transformation_vars,
                loading_vars, control_vars, history_vars, script_vars, config>>

\* file_loader.load(data, destination)
load_file ==
    /\ config.loader = "FileLoader"
    /\ Len(outputs) < MaxLoads
    /\ \E data \in LoadFrames, destination \in FileDestinations,
          write \in {"written", "raised", "raised_partial"}, saved \in BOOLEAN :
          /\ (write # "written" \/ ~config.save_metadata \/ data = NoData) => saved
          /\ input_data' = data
          /\ outputs' = Append(outputs,
                Loaded(data, destination, write,
                       FileLoader_load(loader_state.stats, loader_state.storage,
                                       data, destination, config, write, saved)))
    /\ load_called

\* database_loader.load(data, destination)
load_database ==
    /\ config.loader = "DatabaseLoader"
    /\ Len(outputs) < MaxLoads
    /\ \E data \in LoadFrames, destination \in TableNames,
          write \in {"written", "engine_raised", "schema_raised", "raised"} :
          /\ write = "engine_raised" => ~loader_state.engine
          /\ input_data' = data
          /\ outputs' = Append(outputs,
                Loaded(data, destination, write,
                       DatabaseLoader_load(loader_state.stats,
                                           loader_state.storage,
                                           loader_state.engine, data,
                                           destination, config, write)))
    /\ load_called

LoaderNext ==
    \/ load_file
    \/ load_database

LoaderSpec == InitLoader /\ [][LoaderNext]_vars

\* ------------------------------------------ LoadingPipeline on its own
\* The destinations a caller hands to run_loadings: a dict from some of the
\* loaders' names, or none.
DestinationDicts ==
    UNION {[names -> {"custom_destination", "other_destination"}] :
              names \in SUBSET LoaderNames}

\* A LoadingPipeline with no loader yet, the table and the destinations its
\* run_loadings calls will get.
InitLoading ==
    /\ InitPipeline
    /\ input_data \in {Table("transformation", k, 0, FALSE) : k \in 1..2}
    /\ config \in [destinations : DestinationDicts]
    /\ outputs = <<>>

\* pipeline.run_loadings(data, destinations) up to the first loader
run_loadings ==
    /\ pc = "idle"
    /\ runs < MaxRuns
    /\ pc' = "loading"
    /\ i' = 1
    /\ result' = "pending"
    /\ transformed_data' = input_data
    /\ successful_loadings' = 0
    /\ failed_loadings' = 0
    /\ runs' = runs + 1
    /\ invoked' = <<>>
    /\ succeeded' = NoneSucceeded
    /\ stage_returns' = <<>>
    /\ calls' = <<>>
    /\ UNCHANGED <<pipeline_vars, extraction_vars, transformation_vars, loaders,
                   loading_results, loading_stats, script_vars, component_vars>>

\* The end of run_loadings: the stats are updated and success is returned.
run_loadings_returns ==
    /\ pc = "loading"
    /\ i > Len(loaders)
    /\ loading_stats' = [successful_loadings |-> successful_loadings,
                         failed_loadings |-> failed_loadings,
                         total_loaders |-> Len(loaders)]
    /\ stage_returns' =
          Append(stage_returns,
                 StageReturn("loading", loadings_succeeded(successful_loadings)))
    /\ outputs' = Append(outputs, loadings_succeeded(successful_loadings))
    /\ Return(IF loadings_succeeded(successful_loadings) THEN "True" ELSE "False")
    /\ UNCHANGED <<pipeline_vars, extraction_vars, transformers,
                   transformation_results, loaders, loading_results, runs,
                   invoked, succeeded, script_vars, input_data, config>>

\* pipeline.get_loading_summary() changes nothing.
get_loading_summary ==
    /\ pc = "idle"
    /\ UNCHANGED vars

LoadingNext ==
    \/ configure_loading
    \/ run_loadings
    \/ run_loader
    \/ run_loadings_returns
    \/ get_loading_summary

LoadingSpec == InitLoading /\ [][LoadingNext]_vars

\* ------------------------------------ FeatureEngineer._create_interactions
\* `if interaction_count >= 10: break`
max_interactions == 10

\* A table whose columns are in an order (DataFrame.columns).
Ordered(df, order) ==
    [columns |-> df.columns, dtypes |-> df.dtypes, rows |-> df.rows,
     order |-> order]

\* data.select_dtypes(include=[np.number]).columns: the numeric columns, in
\* the order of the table
numeric_columns(df) == SelectSeq(df.order, LAMBDA c : df.dtypes[c] \in NumericDtypes)

\* f"{col1}_x_{col2}"
interaction_name(col1, col2) == col1 \o "_x_" \o col2

\* data[col1] * data[col2], of one row
product(row, col1, col2) == "(" \o row[col1] \o "*" \o row[col2] \o ")"

\* The two for loops from the pair of positions <<a, b>> on, with
\* interaction_count = count: the pairs they visit, in order, until the
\* count reaches the limit (the two breaks) or the columns are exhausted.
RECURSIVE pairs_from(_, _, _, _, _)
pairs_from(n, a, b, count, limit) ==
    IF a >= n \/ count >= limit THEN <<>>
    ELSE IF b > n THEN pairs_from(n, a + 1, a + 2, count, limit)
    ELSE << <<a, b>> >> \o pairs_from(n, a, b + 1, count + 1, limit)

\* The pairs of n numeric columns that get an interaction column.
interaction_pairs(n, limit) == pairs_from(n, 1, 2, 0, limit)

\* FeatureEngineer._create_interactions: the table returned and self.stats.
\* With fewer than two numeric columns data is returned and the stats are
\* left as they were.  interaction_data[name] = ... appends the column, or
\* overwrites the column of that name; the latest assignment stays.
create_interactions(df, stats) ==
    LET cols == numeric_columns(df)
        pairs == interaction_pairs(Len(cols), max_interactions)
        name(k) == interaction_name(cols[pairs[k][1]], cols[pairs[k][2]])
        names == {name(k) : k \in 1..Len(pairs)}
        latest(c) == CHOOSE k \in 1..Len(pairs) :
                        /\ name(k) = c
                        /\ \A j \in 1..Len(pairs) : name(j) = c => j <= k
        firsts == {k \in 1..Len(pairs) :
                      /\ name(k) \notin df.columns
                      /\ \A j \in 1..(k - 1) : name(j) # name(k)}
    IN  IF Len(cols) < 2
        THEN [table |-> df, stats |-> stats]
        ELSE [table |->
                [columns |-> df.columns \cup names,
                 dtypes |-> [c \in df.columns \cup names |->
                                IF c \in names THEN "int64" ELSE df.dtypes[c]],
                 rows |-> [r \in 1..Len(df.rows) |->
                             [c \in df.columns \cup names |->
                                IF c \in names
                                THEN product(df.rows[r],
                                             cols[pairs[latest(c)][1]],
                                             cols[pairs[latest(c)][2]])
                                ELSE df.rows[r][c]]],
                 order |-> df.order \o
                           SelectSeq([k \in 1..Len(pairs) |->
                                         IF k \in firsts THEN name(k) ELSE ""],
                                     LAMBDA c : c # "")],
              stats |-> Put(stats, "interactions_created", Len(pairs))]

\* The columns of the tables _create_interactions is called with, in order:
\* each is numeric, categorical or missing from the table.
InteractionColumns == <<"a", "b", "a_x_b", "c", "d", "e">>

InteractionFrames ==
    { Ordered(DataFrame(DOMAIN dtypes, dtypes,
                        << [c \in DOMAIN dtypes |-> "2"] >>),
              SelectSeq(InteractionColumns, LAMBDA c : c \in DOMAIN dtypes)) :
         dtypes \in UNION { [columns -> {"int64", "object"}] :
                               columns \in SUBSET {"a", "b", "a_x_b", "c", "d", "e"} } }

\* A FeatureEngineer with create_interactions set and the encoded features
\* of its first transform call.
InitInteractions ==
    /\ InitPipeline
    /\ input_data \in InteractionFrames
    /\ config = [create_interactions |-> TRUE]
    /\ outputs = <<>>

\* features = self._create_interactions(features), on the encoded features
\* of a table and then on the features the call before returned (the
\* engineer applied to its own output).
interact ==
    /\ Len(outputs) < MaxApplications
    /\ LET arg == IF outputs = <<>> THEN input_data
                  ELSE outputs[Len(outputs)].table
           stats == IF outputs = <<>> THEN EmptyDict
                    ELSE outputs[Len(outputs)].stats
           call == create_interactions(arg, stats)
       IN  outputs' = Append(outputs,
                [data |-> arg, table |-> call.table, stats |-> call.stats])
    /\ UNCHANGED <<pipeline_vars, extraction_vars, transformation_vars,
                   loading_vars, control_vars, history_vars, script_vars,
                   input_data, config>>

InteractionsNext == interact

InteractionsSpec == InitInteractions /\ [][InteractionsNext]_vars

\* ================================================================ claims
\* run_pipeline has returned and no other run_pipeline call was made since.
run_returned == pc = "idle" /\ result \in {"True", "False"}

\* stats["stages"][s]["success"] is True
recorded_success(s) == s \in DOMAIN stages /\ stages[s].success

\* The _run_<s>_stage call of this run has returned
stage_returned(s) == \E k \in 1..Len(stage_returns) : stage_returns[k].stage = s

\* The _run_<s>_stage call of this run has returned False
stage_failed(s) ==
    \E k \in 1..Len(stage_returns) :
        stage_returns[k].stage = s /\ ~stage_returns[k].success

\* The positions of the components of a stage called in this run, in order.
invoked_in(s) ==
    LET f == SelectSeq(invoked, LAMBDA e : e[1] = s)
    IN  [k \in 1..Len(f) |-> f[k][2]]

components(s) ==
    CASE s = "extraction" -> extractors
      [] s = "transformation" -> transformers
      [] s = "loading" -> loaders

stage_rank(s) ==
    CASE s = "extraction" -> 1
      [] s = "transformation" -> 2
      [] s = "loading" -> 3

\* C1 (as claimed): when run_pipeline returns, it returns True iff each of
\* the three stages has an entry with success True in stats["stages"], and
\* if some stage had no successful component in this call it returns False
\* with status failed.
C1_Original ==
    run_returned =>
        /\ (result = "True") <=> (\A s \in StageNames : recorded_success(s))
        /\ (\E s \in StageNames : succeeded[s] = {}) =>
              (result = "False" /\ status = "failed")

\* C2 (as claimed): the status is one of the four values and moves only
\* initialized -> running -> completed | failed; completed and failed are
\* never left, whatever is called.
C2_Original ==
    [][ /\ status' \in StatusValues
        /\ status' # status =>
              <<status, status'>> \in {<<"initialized", "running">>,
                                       <<"running", "completed">>,
                                       <<"running", "failed">>}
      ]_vars

\* C2 (amended): the status is one of the four values; it moves
\* initialized -> running -> completed | failed, and it leaves completed or
\* failed only for running, and only by a new run_pipeline call.
C2_Amended ==
    [][ /\ status' \in StatusValues
        /\ status' # status =>
              <<status, status'>> \in {<<"initialized", "running">>,
                                       <<"running", "completed">>,
                                       <<"running", "failed">>,
                                       <<"completed", "running">>,
                                       <<"failed", "running">>}
        /\ (status \in {"completed", "failed"} /\ status' # status) =>
              (pc = "idle" /\ pc' = "extraction" /\ runs' = runs + 1)
      ]_vars

\* A second run_pipeline call has started on a pipeline that had ended.
C2_Witness == runs = 2 /\ status = "running"

\* C3: whenever the status is completed, stats["stages"] has the three
\* entries extraction, transformation and loading, each with success True.
C3_CompletedImpliesStages ==
    status = "completed" => \A s \in StageNames : recorded_success(s)

C3_Witness == status = "completed" /\ result = "True" /\ runs = 2

\* C4 (as claimed): if a stage of this run_pipeline call ended with no
\* successful component, the call returns False and the status is failed.
C4_Original ==
    (run_returned /\ \E s \in StageNames : stage_returned(s) /\ succeeded[s] = {})
        => (result = "False" /\ status = "failed")

\* C5 (as claimed): when run_pipeline returns, if every stage had a
\* successful component the run has ended completed, returning True, with no
\* stage reported failed; and a stage is reported failed only when all of
\* its components were run and failed.  The second half is stated for the
\* extraction stage and for a loading stage that follows a successful
\* extraction and a successful transformation with a successful transformer
\* (an empty table that a transformer validated is taken as invalid output).
C5_Original ==
    [][ (pc # "idle" /\ pc' = "idle") =>
           /\ (\A s \in StageNames : succeeded'[s] # {}) =>
                 /\ result' = "True"
                 /\ status' = "completed"
                 /\ \A s \in StageNames : ~stage_failed(s)'
           /\ \A s \in {"extraction", "loading"} :
                 ( /\ stage_failed(s)'
                   /\ \A r \in StageNames :
                         stage_rank(r) < stage_rank(s) =>
                            (succeeded'[r] # {} /\ ~stage_failed(r)') )
                 => /\ Len(invoked_in(s)') = Len(components(s))
                    /\ succeeded'[s] = {}
      ]_vars

\* C6 (as claimed): after run_pipeline, a stage none of whose components
\* succeeded in that call has no entry with success True.
C6_Original ==
    run_returned =>
        \A s \in StageNames : succeeded[s] = {} => ~recorded_success(s)

\* C7 (as claimed): when run_pipeline returns False, the stage that failed
\* has an entry in stats["stages"] with success False, and the status is
\* failed.
C7_Original ==
    (run_returned /\ result = "False") =>
        /\ status = "failed"
        /\ \A s \in StageNames :
              stage_failed(s) => (s \in DOMAIN stages /\ ~stages[s].success)

\* C8: within a run_pipeline call the components are called stage by stage
\* in the order extraction, transformation, loading; a transformer is called
\* only after every extractor was and the extraction stage returned True, a
\* loader only after every transformer was and the transformation stage
\* returned True.
C8_StageOrder ==
    pc # "idle" =>
        /\ \A j, k \in 1..Len(invoked) :
              j < k => stage_rank(invoked[j][1]) <= stage_rank(invoked[k][1])
        /\ \A k \in 1..Len(stage_returns) :
              stage_rank(stage_returns[k].stage) = k
        /\ (pc = "transformation" \/ invoked_in("transformation") # <<>>) =>
              /\ Len(invoked_in("extraction")) = Len(extractors)
              /\ Len(stage_returns) >= 1
              /\ stage_returns[1] = StageReturn("extraction", TRUE)
        /\ (pc = "loading" \/ invoked_in("loading") # <<>>) =>
              /\ Len(invoked_in("extraction")) = Len(extractors)
              /\ Len(invoked_in("transformation")) = Len(transformers)
              /\ Len(stage_returns) >= 2
              /\ stage_returns[1] = StageReturn("extraction", TRUE)
              /\ stage_returns[2] = StageReturn("transformation", TRUE)
        /\ pc = "extraction" => stage_returns = <<>>

\* Every component of the three stages has been called.
C8_Witness ==
    /\ pc = "loading"
    /\ Len(invoked_in("extraction")) = 2
    /\ Len(invoked_in("transformation")) = 2
    /\ Len(invoked_in("loading")) = 2

\* The latest call of the latest loop iteration ended in a failure.
iteration_failed == calls # <<>> /\ calls[Len(calls)].res \in {"raised", "False"}

C10_ExtractionResults ==
    (pc = "extraction"
        /\ \A j, k \in 1..Len(extractors) : extractors[j] = extractors[k] => j = k)
    =>  /\ DOMAIN extraction_results = {extractors[k] : k \in succeeded.extraction}
        /\ \A k \in succeeded.extraction :
              extraction_results[extractors[k]] = Table("extraction", k, runs, FALSE)
        /\ succeeded.extraction \subseteq 1..(i - 1)
        /\ calls # <<>> =>
              /\ calls[1].op = "extract" /\ calls[1].idx = i - 1
              /\ \/ Len(calls) = 1 /\ calls[1].res = "raised"
                 \/ /\ Len(calls) = 2
                    /\ calls[1].res = "returned"
                    /\ calls[2].op = "validate"
                    /\ calls[2].idx = i - 1
                    /\ calls[2].arg = calls[1].out
                    /\ calls[2].res = "True" <=> (i - 1) \in succeeded.extraction
                    /\ calls[2].res = "True" =>
                          extraction_results[extractors[i - 1]] = calls[1].out

\* The second run_all_extractions call of the object is about to return a
\* mapping with the second extractor only, the first one having failed.
C10_Witness ==
    /\ pc = "extraction"
    /\ runs = 2
    /\ Len(extractors) = 2
    /\ extractors[1] # extractors[2]
    /\ i = 3
    /\ succeeded.extraction = {2}

\* The position of the last transformer before position k that transformed
\* and validated in this run_transformations call, 0 if there is none.
last_successful(k) ==
    LET before == {j \in succeeded.transformation : j < k}
    IN  IF before = {} THEN 0
        ELSE CHOOSE j \in before : \A m \in before : m <= j

\* Table t is what the transformers before position k hand on: the output of
\* the last successful one, or the copy of the input of run_transformations.
threaded(t, k) ==
    IF last_successful(k) = 0
    THEN t = copy(combined_data(extraction_results, runs))
    ELSE /\ t.stage = "transformation"
         /\ t.run = runs
         /\ t.idx = last_successful(k)

\* C11: run_transformations threads the data linearly: the k-th transformer
\* receives the output of the nearest transformer before it that transformed
\* and validated (a copy of the original input if there is none), the value
\* returned is the output of the last successful transformer (a copy of the
\* input if none succeeded), and the output of a transformer that raised or
\* failed validation is never handed on.
C11_LinearThreading ==
    pc = "transformation" =>
        /\ threaded(current_data, i)
        /\ last_successful(i) # 0 =>
              current_data = transformation_results[transformers[last_successful(i)]]
        /\ calls # <<>> =>
              /\ calls[1].op = "transform"
              /\ calls[1].idx = i - 1
              /\ threaded(calls[1].arg, i - 1)
              /\ (i - 1) \in succeeded.transformation =>
                    (Len(calls) = 2 /\ calls[2].res = "True"
                        /\ current_data = calls[1].out)
              /\ (i - 1) \notin succeeded.transformation =>
                    /\ current_data = calls[1].arg
                    /\ current_data # calls[1].out

\* The first transformer succeeded, the second one returned a table that
\* failed validation, and run_transformations is about to return.
C11_Witness ==
    /\ pc = "transformation"
    /\ i = 3
    /\ succeeded.transformation = {1}
    /\ Len(calls) = 2
    /\ calls[2].res = "False"

\* C12: run_loadings calls every loader and returns True iff at least one
\* loader passed validate and returned True from load, whatever the other
\* loaders did before or after it; with no loader, or with every loader
\* failing, it returns False.
C12_AtLeastOneLoader ==
    [][ (pc = "loading" /\ pc' = "idle") =>
           LET returned == stage_returns'[Len(stage_returns')]
           IN  /\ returned.stage = "loading"
               /\ Len(invoked_in("loading")) = Len(loaders)
               /\ returned.success <=> (succeeded.loading # {})
               /\ returned.success <=> (successful_loadings > 0)
               /\ successful_loadings + failed_loadings = Len(loaders)
               /\ Len(loaders) = 0 => ~returned.success
      ]_vars

\* run_loadings returned True although the loader after the successful one
\* failed.
C12_Witness ==
    /\ run_returned
    /\ result = "True"
    /\ Len(loaders) = 2
    /\ succeeded.loading = {1}
    /\ Len(invoked_in("loading")) = 2

\* C13 (as claimed): the table handed to the loaders is the output of the
\* last transformer that succeeded in this run_pipeline call, whatever its
\* name and position, and every loader is called with that table.
C13_Original ==
    pc = "loading" =>
        /\ succeeded.transformation # {}
        /\ transformed_data.stage = "transformation"
        /\ transformed_data.run = runs
        /\ transformed_data.idx = last_successful(Len(transformers) + 1)
        /\ \A k \in 1..Len(calls) : calls[k].arg = transformed_data

\* C14 (as claimed): whenever get_pipeline_health can be called,
\* overall_health is healthy iff stages_completed = total_stages = 3, and
\* unhealthy otherwise.
C14_Original ==
    pc = "idle" =>
        /\ pipeline_health.overall_health \in {"healthy", "unhealthy"}
        /\ pipeline_health.overall_health = "healthy" <=>
              (pipeline_health.stages_completed = pipeline_health.total_stages
                  /\ pipeline_health.total_stages = 3)

\* C15: no retries and no resumption: within a run_pipeline call no
\* component (a position of a stage's list) is called twice, whatever its
\* outcome, and every run_pipeline call starts at the first extractor with
\* nothing called yet and an empty extraction mapping, whatever stage the
\* call before failed at.
C15_NoRetryNoResume ==
    [][ /\ \A j, k \in 1..Len(invoked') : invoked'[j] = invoked'[k] => j = k
        /\ (pc = "idle" /\ pc' # "idle") =>
              /\ pc' = "extraction"
              /\ i' = 1
              /\ invoked' = <<>>
              /\ stage_returns' = <<>>
              /\ extraction_results' = EmptyDict
        /\ (pc' # "idle" /\ invoked' # <<>> /\ Len(extractors) > 0) =>
              invoked'[1] = <<"extraction", 1>>
      ]_vars

\* The call before recorded the extraction and the transformation stage and
\* failed at the loading stage; the new call is running its extractors.
C15_Witness ==
    /\ runs = 2
    /\ pc = "extraction"
    /\ i = 2
    /\ DOMAIN stages = {"extraction", "transformation"}

\* C16 (as claimed): the transformers work on a copy of the combined
\* extraction output, never on a table held in ExtractionOrchestrator.results,
\* which the transformation stage leaves as they are; and the loaders are
\* called with a copy of the transformed table, not with the object held in
\* TransformationPipeline.results.
C16_Original ==
    /\ pc = "transformation" =>
          /\ \A n \in DOMAIN extraction_results :
                /\ extraction_results[n].stage = "extraction"
                /\ extraction_results[n] # current_data
                /\ \A k \in 1..Len(calls) : calls[k].arg # extraction_results[n]
    /\ pc = "loading" =>
          /\ \A n \in DOMAIN transformation_results :
                /\ transformed_data # transformation_results[n]
                /\ \A k \in 1..Len(calls) :
                      calls[k].arg # transformation_results[n]
          /\ \E n \in DOMAIN transformation_results :
                transformed_data = copy(transformation_results[n])

C18_Original ==
    (Len(outputs) = 2 /\ config.remove_duplicates) =>
        /\ outputs[2].table.rows = outputs[1].table.rows
        /\ outputs[2].duplicates_removed = 0

\* C19 (as claimed): with categorical_encoding onehot and the scaling and
\* feature selection of the default configuration, the table transform
\* returns has the rows of its input in order, and in each row, for each
\* categorical feature other than the target, the indicator column of the
\* row's category is there and True, and no other indicator column of the
\* feature is True.  Stated where get_dummies makes bool columns; where
\* it makes uint8 columns the scaling turns every indicator into a z-score.
C19_Original ==
    ( /\ outputs # <<>>
      /\ "categorical_encoding" \in DOMAIN config
      /\ config.categorical_encoding = "onehot"
      /\ config.feature_scaling
      /\ config.feature_selection
      /\ config.n_features = default_n_features
      /\ config.dummies_dtype = "bool" )
    => LET out == outputs[1].table
       IN  /\ Len(out.rows) = Len(input_data.rows)
           /\ \A k \in 1..Len(input_data.rows) :
                 \A c \in categorical_cols(input_data) \ {config.target_column} :
                    /\ indicator(c, input_data.rows[k][c]) \in out.columns
                    /\ \A v \in categories(input_data, c) :
                          indicator(c, v) \in out.columns =>
                             (out.rows[k][indicator(c, v)] = "True"
                                 <=> v = input_data.rows[k][c])

\* C20 (as claimed): validate of each of the three extractors returns False
\* on an empty table and True on every non-empty table that has the columns
\* the extractor requires, however many values are missing.
C20_Original ==
    outputs # <<>> =>
        /\ empty(input_data) => ~outputs[1].result
        /\ (~empty(input_data) /\ outputs[1].required \subseteq input_data.columns)
              => outputs[1].result

\* C20 (amended): validate returns False on an empty table; on a non-empty
\* table it returns True iff the table has the columns the extractor
\* requires and, for UCIMushroomExtractor, its class column has dtype
\* object; the share of missing values never changes the result.
C20_Amended ==
    outputs # <<>> =>
        LET call == outputs[1]
        IN  call.result <=>
               /\ ~empty(input_data)
               /\ call.required \subseteq input_data.columns
               /\ call.extractor = "UCIMushroomExtractor" =>
                     input_data.dtypes["class"] = "object"

\* FileExtractor.validate returned True on a table with more than half of
\* its cells missing.
C20_Witness ==
    /\ outputs # <<>>
    /\ outputs[1].extractor = "FileExtractor"
    /\ outputs[1].result
    /\ high_missing(input_data)

\* run_loadings has returned in this run_pipeline call and no other was
\* started since.
run_loadings_returned == pc = "idle" /\ stage_returned("loading") /\ invoked_in("loading") # <<>>

\* C21 (as claimed): after run_loadings, LoadingPipeline.results has an
\* entry for a loader only if its load succeeded; a loader whose validation
\* failed, whose load returned False or whose load raised has no entry.
\* Stated for the first run_loadings call on the object.
C21_Original ==
    (run_loadings_returned /\ runs = 1) =>
        \A n \in DOMAIN loading_results :
            \E k \in succeeded.loading : loaders[k] = n

\* C22 (as claimed): after any run_transformations call, the second or a
\* later one on the same object included, TransformationPipeline.results
\* holds exactly the transformers that transformed and validated in that
\* call, each with the table it returned in that call.
C22_Original ==
    stage_returned("transformation") =>
        /\ DOMAIN transformation_results =
              {transformers[k] : k \in succeeded.transformation}
        /\ \A n \in DOMAIN transformation_results :
              transformation_results[n].run = runs

\* The names of a component list are pairwise distinct.
distinct(names) ==
    \A a, b \in 1..Len(names) : a # b => names[a] # names[b]

\* C23 (as claimed): get_extraction_summary() reports successful_extractions
\* equal to the number of tables in results (results_count), in every state
\* in which it can be called, after several run_all_extractions calls
\* included.  Stated for extractors with pairwise distinct names.
C23_Original ==
    (pc = "idle" /\ distinct(extractors)) =>
        extraction_summary.successful_extractions = extraction_summary.results_count

\* run_all_extractions has returned in this run_pipeline call and no
\* extractor was added since.
run_all_extractions_returned ==
    /\ stage_returned("extraction")
    /\ Len(invoked_in("extraction")) = Len(extractors)

\* C27 (as claimed): after every run_all_extractions call, the first or a
\* later one, successful_extractions + failed_extractions equals
\* total_extractors, which is the number of configured extractors, and
\* successful_extractions equals len(results) when the names are distinct.
C27_Original ==
    run_all_extractions_returned =>
        /\ extraction_stats.successful_extractions
              + extraction_stats.failed_extractions
              = extraction_stats.total_extractors
        /\ extraction_stats.total_extractors = Len(extractors)
        /\ distinct(extractors) =>
              extraction_stats.successful_extractions
                 = Cardinality(DOMAIN extraction_results)

C24_LoadNeverRaises ==
    \A k \in 1..Len(outputs) :
        LET call == outputs[k]
        IN  /\ ~call.raised
            /\ call.returned \in BOOLEAN
            /\ call.write # "written" => ~call.returned
            /\ ~call.returned =>
                  /\ call.stats["loading_successful"] = FALSE
                  /\ "error" \in DOMAIN call.stats
            /\ call.returned =>
                  /\ call.write = "written"
                  /\ call.stats["loading_successful"] = TRUE
                  /\ call.stats["records_loaded"] = Len(call.data.rows)

\* A load whose write raised returned False, and the next load on the same
\* loader, of a table of two rows, returned True.
C24_Witness ==
    /\ Len(outputs) = 2
    /\ outputs[1].write = "raised"
    /\ outputs[1].data # NoData
    /\ ~outputs[1].returned
    /\ outputs[2].returned
    /\ Len(outputs[2].data.rows) = 2
    /\ outputs[2].stats["records_loaded"] = 2

\* C30 (as claimed): for every file_format and destination filename, when
\* FileLoader.load returns True with save_metadata enabled, the metadata
\* sidecar is a file other than the data file, the data file still holds the
\* data loaded, and the sidecar reports records_count equal to the rows
\* loaded (where the sidecar could be written).
C30_Original ==
    \A k \in 1..Len(outputs) :
        LET call == outputs[k]
            path == file_path(config, call.destination)
            sidecar == with_suffix(path, ".json")
        IN  (config.loader = "FileLoader" /\ config.save_metadata /\ call.returned)
            => /\ sidecar # path
               /\ call.storage[path].kind = "data"
               /\ call.storage[path].records = Len(call.data.rows)
               /\ (sidecar \in DOMAIN call.storage
                      /\ call.storage[sidecar].kind = "metadata") =>
                     call.storage[sidecar].records_count = Len(call.data.rows)

\* C25: in every iteration of the loop of run_loadings, validate is called
\* first, on the table run_loadings was given; load is called only after
\* validate returned True, for the same loader and table, with
\* destinations[loader.name] when destinations has the name and None when it
\* has not (or when no destinations were given).
C25_ValidateThenLoad ==
    (pc = "loading" /\ calls # <<>>) =>
        /\ Len(calls) \in 1..2
        /\ calls[1].op = "validate"
        /\ calls[1].idx = i - 1
        /\ calls[1].arg = transformed_data
        /\ calls[1].res # "True" => Len(calls) = 1
        /\ \A k \in 1..Len(calls) :
              calls[k].op = "load" =>
                 /\ k = 2
                 /\ calls[1].res = "True"
                 /\ calls[k].idx = calls[1].idx
                 /\ calls[k].arg = calls[1].arg
                 /\ LET name == loaders[calls[k].idx]
                    IN  calls[k].destination =
                           (IF name \in DOMAIN config.destinations
                            THEN config.destinations[name] ELSE "None")

\* Of two loaders the first was loaded with its custom destination; the
\* second, which the destinations do not name, with None.
C25_Witness ==
    /\ pc = "loading"
    /\ i = 3
    /\ DOMAIN config.destinations = {loaders[1]}
    /\ Len(calls) = 2
    /\ calls[2].op = "load"
    /\ calls[2].destination = "None"
    /\ 1 \in succeeded.loading

\* C29 (as claimed): after run_loadings on a fresh pipeline whose loaders
\* have pairwise distinct names, get_loading_summary() reports the
\* successful_loadings and the failed_loadings of stats, and the two sum to
\* total_loaders, for every combination of outcomes.
C29_Original ==
    (run_loadings_returned /\ runs = 1 /\ distinct(loaders)
        /\ loading_stats.total_loaders = Len(loaders)) =>
        /\ loading_summary.successful_loadings = loading_stats.successful_loadings
        /\ loading_summary.failed_loadings = loading_stats.failed_loadings
        /\ loading_summary.successful_loadings + loading_summary.failed_loadings
              = loading_summary.total_loaders

\* C26 (as claimed): _create_interactions never adds more than 10 columns;
\* on a table of n numeric columns it adds exactly min(10, n(n-1)/2)
\* columns, none when n < 2, each named <col1>_x_<col2> for a pair of
\* numeric columns of the table, and stats['interactions_created'] is the
\* number of columns added.
C26_Original ==
    \A k \in 1..Len(outputs) :
        LET call == outputs[k]
            cols == numeric_columns(call.data)
            n == Len(cols)
            added == call.table.columns \ call.data.columns
        IN  /\ Cardinality(added) <= 10
            /\ Cardinality(added) = min(10, (n * (n - 1)) \div 2)
            /\ \A c \in added :
                  \E a, b \in 1..n : a < b /\ c = cols[a] \o "_x_" \o cols[b]
            /\ "interactions_created" \in DOMAIN call.stats
            /\ call.stats["interactions_created"] = Cardinality(added)

====
